---------------------------- MODULE Spec2Model ----------------------------
(***************************************************************************)
(* Kanikamera: the capture managers of kanikamera/camera.py, driven by the *)
(* motion sensor of kanikamera/motionsensor.py, on one asyncio event loop. *)
(*                                                                         *)
(* Two coroutine tasks share the class-level asyncio.Lock                  *)
(* ImageManagerBase._camera_lock: StillImageManager.__call__ (periodic     *)
(* stills) and VideoManager.__call__ (video on motion).  A step of the     *)
(* model is what the event loop runs between two suspension points of a    *)
(* task, one callback of the loop, one step of the GPIO thread, or one     *)
(* tick of the clock.  Time is counted in whole hours so that loop.time()  *)
(* and localtime() advance together.                                       *)
(***************************************************************************)
EXTENDS Naturals, Sequences, FiniteSets

\* ------------------------------------------------------------- bounds
MaxClock == 5       \* loop.time() runs from 1 to MaxClock
MaxMotions == 3     \* motion detections one VideoManager run handles
MaxTicks == 4       \* timer ticks one run of the timer scripts handles

\* ------------------------------------------------- program constants
OfficeStart == 9    \* camera.py:60  now.tm_hour < 9
OfficeEnd == 17     \* camera.py:60  now.tm_hour >= 17
FirstWeekendDay == 5 \* camera.py:60 now.tm_wday >= 5

\* configuration handed to the constructors, in clock units
interval == 1           \* StillImageManager._interval
motionless_period == 2  \* VideoManager._motionless_period

Still == "StillImageManager"
Video == "VideoManager"
Tasks == {Still, Video}

VARIABLES
    clock,                \* asyncio loop.time()
    wall,                 \* time.localtime(): [tm_hour, tm_wday]
    camera_config_bound,  \* does the free name _camera_config (camera.py:72) resolve
    camera_lock,          \* ImageManagerBase._camera_lock: [locked, waiters, woken]
    pc,                   \* where each task is suspended
    exc,                  \* the exception that ended a task
    camera,               \* tasks whose Camera() holds an open PiCamera
    worker,               \* what each task's executor thread is running
    wake_at,              \* deadline of the still task's asyncio.sleep
    last_motion_time,     \* VideoManager._last_motion_time
    motion_time,          \* local motion_time of _handle_motion_detected
    encoder,              \* the avconv subprocess p of _capture_video
    motion_detect_event,  \* MotionSensor._motion_detect_event
    motion_stop_event,    \* MotionSensor._motion_stop_event
    gpio_pc,              \* the GPIO thread inside MotionSensor._handle_motion_detected
    job,                  \* history of each task's current capture job
    motion_log,           \* history of the detections the video task handled
    script                \* the timer scripts __main__.py and kanikamera.py

vars == <<clock, wall, camera_config_bound, camera_lock, pc, exc, camera, worker,
          wake_at, last_motion_time, motion_time, encoder, motion_detect_event,
          motion_stop_event, gpio_pc, job, motion_log, script>>

sensor_vars == <<motion_detect_event, motion_stop_event, gpio_pc>>
video_vars == <<last_motion_time, motion_time, encoder, motion_log>>
time_vars == <<clock, wall, camera_config_bound, script>>

\* ------------------------------------------------------------ time
\* the local times the run may start at: Friday 08:00, Friday 13:00, Saturday 10:00
StartWalls == {[tm_hour |-> 8, tm_wday |-> 4],
               [tm_hour |-> 13, tm_wday |-> 4],
               [tm_hour |-> 10, tm_wday |-> 5]}

NextHour(w) ==
    IF w.tm_hour = 23
    THEN [tm_hour |-> 0, tm_wday |-> (w.tm_wday + 1) % 7]
    ELSE [tm_hour |-> w.tm_hour + 1, tm_wday |-> w.tm_wday]

NotOfficeHours_NoWeekend(now) ==
    now.tm_hour < OfficeStart \/ now.tm_hour >= OfficeEnd

\* camera.py:60, the test of capture_with_camera
NotOfficeHours(now) ==
    now.tm_hour < OfficeStart \/ now.tm_hour >= OfficeEnd \/ now.tm_wday >= FirstWeekendDay

\* ------------------------------------------------------------ asyncio.Lock
LockFree_Always(lk) == TRUE

\* Lock.acquire returns without suspending when the lock is free and nobody waits
LockFree(lk) == ~lk.locked /\ lk.waiters = <<>>

Without(s, t) == SelectSeq(s, LAMBDA x : x # t)

\* the waiter's future is removed from _waiters when its acquire() ends
LockForget(lk, t) ==
    [lk EXCEPT !.waiters = Without(lk.waiters, t), !.woken = lk.woken \ {t}]

\* Lock.release on a locked lock: unlock and wake the first waiter
LockRelease(lk) ==
    [lk EXCEPT !.locked = FALSE,
               !.woken = IF lk.waiters = <<>> THEN lk.woken
                         ELSE lk.woken \cup {Head(lk.waiters)}]

\* ------------------------------------------------------------ histories
\* policy: what the office-hours test said; invoked: the decorated function was
\* called; waited: the task was suspended in Lock.acquire for the section it is
\* in; captures: executor calls on the camera; returncode: avconv's; uploads:
\* calls of upload_image; upload_file: the path upload_image computed, kept
\* while the upload runs
NoJob == [policy |-> "none", invoked |-> FALSE, waited |-> FALSE, captures |-> 0,
          returncode |-> "none", uploads |-> 0, upload_result |-> "none",
          upload_file |-> {}]

NewJob(policy, invoked) == [NoJob EXCEPT !.policy = policy, !.invoked = invoked]

UploadFile_Jpg(now, format) ==
    [date |-> now.tm_wday, time |-> now.tm_hour, ext |-> "jpg"]

\* "/Kanikuvat/{}/{}.{}".format(now.strftime("%Y%m%d"), now.strftime("%H%M%S"),
\* format) (camera.py:94-95): the directory is the day, the name the time of day
UploadFile(now, format) ==
    [date |-> now.tm_wday, time |-> now.tm_hour, ext |-> format]

\* one handled detection: the time read, whether _capture_video was called, and
\* whether the camera started recording for it
Detection(t, called) == [time |-> t, capture |-> called, recorded |-> FALSE]

MarkRecorded(ml) == [ml EXCEPT ![Len(ml)].recorded = TRUE]

\* ------------------------------------------------------------ initial state
\* no timer script runs beside the asyncio managers
ScriptOff == [program |-> "none", pc |-> "off", img |-> "none", uploaded |-> <<>>]

Init ==
    /\ script = ScriptOff
    /\ clock = 1
    /\ wall \in StartWalls
    /\ camera_config_bound \in BOOLEAN
    /\ camera_lock = [locked |-> FALSE, waiters |-> <<>>, woken |-> {}]
    /\ pc = [t \in Tasks |-> IF t = Still THEN "start" ELSE "wait_detect"]
    /\ exc = [t \in Tasks |-> "none"]
    /\ camera = {}
    /\ worker = [t \in Tasks |-> "none"]
    /\ wake_at = 0
    /\ last_motion_time = {}
    /\ motion_time = 0
    /\ encoder = "none"
    /\ motion_detect_event = FALSE
    /\ motion_stop_event = FALSE
    /\ gpio_pc = "idle"
    /\ job = [t \in Tasks |-> NoJob]
    /\ motion_log = <<>>

\* ------------------------------------------------------------ the camera gate
\* what evaluating PiCamera(**_camera_config) can do (camera.py:72): the free name
\* _camera_config is looked up in the module globals, which camera.py never binds
OpenOutcomes ==
    IF camera_config_bound THEN {"ok", "PiCameraError"} ELSE {"NameError"}

\* Camera.__aenter__ once acquire() has returned (lk is the lock then), and on
\* success the decorated coroutine up to its first await: the still task hands
\* camera.capture to the executor, the video task starts avconv and hands
\* _record_video to the executor.  j and ml are the job and the motion log so far.
AEnter(t, lk, j, ml, r) ==
    IF r = "ok"
    THEN /\ camera_lock' = lk
         /\ camera' = camera \cup {t}
         /\ pc' = [pc EXCEPT ![t] = IF t = Still THEN "capture" ELSE "record"]
         /\ worker' = [worker EXCEPT ![t] = IF t = Still THEN "capture" ELSE "record"]
         /\ encoder' = IF t = Video THEN "running" ELSE encoder
         /\ exc' = exc
         /\ job' = [job EXCEPT ![t] = [j EXCEPT !.captures = 1]]
         /\ motion_log' = IF t = Video THEN MarkRecorded(ml) ELSE ml
    ELSE /\ camera_lock' = LockRelease(lk)
         /\ pc' = [pc EXCEPT ![t] = "failed"]
         /\ exc' = [exc EXCEPT ![t] = r]
         /\ job' = [job EXCEPT ![t] = j]
         /\ motion_log' = ml
         /\ UNCHANGED <<camera, worker, encoder>>

\* capture_with_camera, called and awaited by task t: outside office hours it
\* returns None, and the caller's await of None raises TypeError; otherwise the
\* decorated coroutine runs up to its first suspension
Gate(t, ml) ==
    IF NotOfficeHours(wall)
    THEN /\ pc' = [pc EXCEPT ![t] = "failed"]
         /\ exc' = [exc EXCEPT ![t] = "TypeError"]
         /\ job' = [job EXCEPT ![t] = NewJob("closed", FALSE)]
         /\ motion_log' = ml
         /\ UNCHANGED <<camera_lock, camera, worker, encoder>>
    ELSE IF LockFree(camera_lock)
    THEN \E r \in OpenOutcomes :
            AEnter(t, [camera_lock EXCEPT !.locked = TRUE], NewJob("open", TRUE), ml, r)
    ELSE /\ camera_lock' = [camera_lock EXCEPT !.waiters = Append(@, t)]
         /\ pc' = [pc EXCEPT ![t] = "acquire"]
         /\ job' = [job EXCEPT ![t] = [NewJob("open", TRUE) EXCEPT !.waited = TRUE]]
         /\ motion_log' = ml
         /\ UNCHANGED <<exc, camera, worker, encoder>>

\* The loop runs its ready callbacks in order: the step of a task whose future got
\* its result in Lock.release comes before the timers and executor results that
\* become ready later, so no other task runs while one is woken and not yet run.
NoneWoken == camera_lock.woken = {}

Woken_Always(t) == TRUE

\* the future task t waits on in Lock.acquire has its result
Woken(t) == t \in camera_lock.woken

\* acquire returns in a task that waited for the lock
Lock_Wake(t) ==
    /\ pc[t] = "acquire"
    /\ Woken(t)
    /\ \E r \in OpenOutcomes :
          AEnter(t, [LockForget(camera_lock, t) EXCEPT !.locked = TRUE],
                 job[t], motion_log, r)
    /\ UNCHANGED <<time_vars, wake_at, last_motion_time, motion_time, sensor_vars>>

CloseCamera_Leak(cams, t) == cams

\* self._camera.close() in Camera.__aexit__ (camera.py:78)
CloseCamera(cams, t) == cams \ {t}

ExitLock_NoRelease(lk) == lk

\* Camera.__aexit__: close the camera, release the lock
ExitLock(lk) == IF lk.locked THEN LockRelease(lk) ELSE lk
\* Lock.release raises RuntimeError when the lock is not locked
ExitRaises(lk) == ~lk.locked

\* ------------------------------------------------------------ StillImageManager
Still_Tick ==
    /\ NoneWoken
    /\ \/ pc[Still] = "start"
       \/ pc[Still] = "sleep" /\ clock >= wake_at
    /\ Gate(Still, motion_log)
    /\ UNCHANGED <<time_vars, wake_at, last_motion_time, motion_time, sensor_vars>>

\* the executor finished camera.capture; the async with block is left and, if all
\* went well, upload_image hands do_upload_image to the executor
Still_CaptureDone ==
    /\ NoneWoken
    /\ pc[Still] = "capture"
    /\ worker[Still] = "capture"
    /\ \E r \in {"ok", "PiCameraError"} :
          /\ camera' = CloseCamera(camera, Still)
          /\ camera_lock' = ExitLock(camera_lock)
          /\ IF ExitRaises(camera_lock)
             THEN /\ pc' = [pc EXCEPT ![Still] = "failed"]
                  /\ exc' = [exc EXCEPT ![Still] = "RuntimeError"]
                  /\ worker' = [worker EXCEPT ![Still] = "none"]
                  /\ job' = job
             ELSE IF r = "ok"
             THEN /\ pc' = [pc EXCEPT ![Still] = "upload_image"]
                  /\ worker' = [worker EXCEPT ![Still] = "upload"]
                  /\ job' = [job EXCEPT ![Still].uploads = @ + 1, ![Still].waited = FALSE,
                                         ![Still].upload_file = {UploadFile(wall, "jpg")}]
                  /\ exc' = exc
             ELSE /\ pc' = [pc EXCEPT ![Still] = "failed"]
                  /\ exc' = [exc EXCEPT ![Still] = r]
                  /\ worker' = [worker EXCEPT ![Still] = "none"]
                  /\ job' = job
    /\ UNCHANGED <<time_vars, wake_at, video_vars, sensor_vars>>

\* what Dropbox(...).files_upload can do inside do_upload_image
UploadOutcomes == {"ok", "DropboxException", "RequestException"}

UploadCaught_DropboxOnly == {"DropboxException"}

\* the except clause of do_upload_image (camera.py:101)
UploadCaught == {"DropboxException", "RequestException"}

\* the exception upload_image lets through to the task
UploadRaises(r) == r # "ok" /\ r \notin UploadCaught

\* do_upload_image returned in the executor; the task goes to sleep
Still_UploadDone ==
    /\ NoneWoken
    /\ pc[Still] = "upload_image"
    /\ worker[Still] = "upload"
    /\ \E r \in UploadOutcomes :
          /\ job' = [job EXCEPT ![Still].upload_result = r, ![Still].upload_file = {}]
          /\ IF UploadRaises(r)
             THEN /\ pc' = [pc EXCEPT ![Still] = "failed"]
                  /\ exc' = [exc EXCEPT ![Still] = r]
                  /\ UNCHANGED wake_at
             ELSE /\ pc' = [pc EXCEPT ![Still] = "sleep"]
                  /\ wake_at' = clock + interval
                  /\ exc' = exc
    /\ worker' = [worker EXCEPT ![Still] = "none"]
    /\ UNCHANGED <<time_vars, camera_lock, camera, video_vars, sensor_vars>>

\* ------------------------------------------------------------ VideoManager
\* `not self._last_motion_time` (camera.py:182): None and 0 are both falsy
Falsy(last) == last = {} \/ last = {0}

StartsCapture_AtPeriod(last, now) ==
    Falsy(last) \/ \E l \in last : now >= l /\ now - l >= motionless_period

\* the condition of _handle_motion_detected (camera.py:182-183)
StartsCapture(last, now) ==
    Falsy(last) \/ \E l \in last : now > l /\ now - l > motionless_period

\* motion_detect_event.wait() returns and _handle_motion_detected runs up to its
\* first suspension, or to the wait for motion_stop_event
Video_Detect ==
    /\ NoneWoken
    /\ pc[Video] = "wait_detect"
    /\ motion_detect_event
    /\ Len(motion_log) < MaxMotions
    /\ motion_time' = clock
    /\ IF StartsCapture(last_motion_time, clock)
       THEN /\ Gate(Video, Append(motion_log, Detection(clock, TRUE)))
            /\ UNCHANGED last_motion_time
       ELSE /\ last_motion_time' = {clock}
            /\ motion_log' = Append(motion_log, Detection(clock, FALSE))
            /\ pc' = [pc EXCEPT ![Video] = "wait_stop"]
            /\ UNCHANGED <<camera_lock, exc, camera, worker, encoder, job>>
    /\ UNCHANGED <<time_vars, wake_at, sensor_vars>>

\* the executor finished _record_video; the async with block is left and
\* p.communicate is handed to the executor
Video_RecordDone ==
    /\ NoneWoken
    /\ pc[Video] = "record"
    /\ worker[Video] = "record"
    /\ \E r \in {"ok", "PiCameraError"} :
          /\ camera' = CloseCamera(camera, Video)
          /\ camera_lock' = ExitLock(camera_lock)
          /\ IF ExitRaises(camera_lock)
             THEN /\ pc' = [pc EXCEPT ![Video] = "failed"]
                  /\ exc' = [exc EXCEPT ![Video] = "RuntimeError"]
                  /\ worker' = [worker EXCEPT ![Video] = "none"]
                  /\ job' = job
             ELSE IF r = "ok"
             THEN /\ pc' = [pc EXCEPT ![Video] = "communicate"]
                  /\ worker' = [worker EXCEPT ![Video] = "communicate"]
                  /\ job' = [job EXCEPT ![Video].waited = FALSE]
                  /\ exc' = exc
             ELSE /\ pc' = [pc EXCEPT ![Video] = "failed"]
                  /\ exc' = [exc EXCEPT ![Video] = r]
                  /\ worker' = [worker EXCEPT ![Video] = "none"]
                  /\ job' = job
    /\ UNCHANGED <<time_vars, wake_at, video_vars, sensor_vars>>

\* the end of _capture_video and of _handle_motion_detected (camera.py:185)
Video_Handled ==
    /\ last_motion_time' = {motion_time}
    /\ pc' = [pc EXCEPT ![Video] = "wait_stop"]

ReturncodeOk_Any(rc) == TRUE

\* p.returncode == 0 (camera.py:208)
ReturncodeOk(rc) == rc = "zero"

\* p.communicate returned: upload the file when avconv exited with 0
Video_CommunicateDone ==
    /\ NoneWoken
    /\ pc[Video] = "communicate"
    /\ worker[Video] = "communicate"
    /\ encoder' = "exited"
    /\ \E rc \in {"zero", "nonzero"} :
          IF ReturncodeOk(rc)
          THEN /\ pc' = [pc EXCEPT ![Video] = "upload_image"]
               /\ worker' = [worker EXCEPT ![Video] = "upload"]
               /\ job' = [job EXCEPT ![Video].returncode = rc, ![Video].uploads = @ + 1,
                                      ![Video].upload_file = {UploadFile(wall, "mp4")}]
               /\ UNCHANGED last_motion_time
          ELSE /\ Video_Handled
               /\ worker' = [worker EXCEPT ![Video] = "none"]
               /\ job' = [job EXCEPT ![Video].returncode = rc]
    /\ UNCHANGED <<time_vars, camera_lock, exc, camera, wake_at, motion_time,
                   motion_log, sensor_vars>>

Video_UploadDone ==
    /\ NoneWoken
    /\ pc[Video] = "upload_image"
    /\ worker[Video] = "upload"
    /\ \E r \in UploadOutcomes :
          /\ job' = [job EXCEPT ![Video].upload_result = r, ![Video].upload_file = {}]
          /\ IF UploadRaises(r)
             THEN /\ pc' = [pc EXCEPT ![Video] = "failed"]
                  /\ exc' = [exc EXCEPT ![Video] = r]
                  /\ UNCHANGED last_motion_time
             ELSE /\ Video_Handled
                  /\ exc' = exc
    /\ worker' = [worker EXCEPT ![Video] = "none"]
    /\ UNCHANGED <<time_vars, camera_lock, camera, wake_at, motion_time,
                   encoder, motion_log, sensor_vars>>

\* motion_stop_event.wait() returns: back to the top of the loop
Video_Stop ==
    /\ NoneWoken
    /\ pc[Video] = "wait_stop"
    /\ motion_stop_event
    /\ pc' = [pc EXCEPT ![Video] = "wait_detect"]
    /\ UNCHANGED <<time_vars, camera_lock, exc, camera, worker, wake_at, video_vars,
                   sensor_vars, job>>

\* ------------------------------------------------------------ MotionSensor
\* the event loop is kept running while a task is left on it
Running == \E t \in Tasks : pc[t] \notin {"done", "failed"}

\* The GPIO thread enters _handle_motion_detected on a rising edge, reads the pin
\* and hands the loop the first of its two callbacks with call_soon_threadsafe.
\* The loop runs the callbacks in the order they were handed over, so each is
\* taken to run as it is handed over: tasks still run between the two.
Gpio_Callback(level) ==
    /\ Running
    /\ gpio_pc = "idle"
    /\ motion_detect_event' = (level = 1)
    /\ gpio_pc' = IF level = 1 THEN "high" ELSE "low"
    /\ UNCHANGED <<time_vars, camera_lock, pc, exc, camera, worker, wake_at, video_vars,
                   motion_stop_event, job>>

\* the second callback: motion_stop_event.clear after a high read, .set after a low
Gpio_Second ==
    /\ gpio_pc # "idle"
    /\ motion_stop_event' = (gpio_pc = "low")
    /\ gpio_pc' = "idle"
    /\ UNCHANGED <<time_vars, camera_lock, pc, exc, camera, worker, wake_at, video_vars,
                   motion_detect_event, job>>

\* ------------------------------------------------------------ environment
\* an hour passes
Advance ==
    /\ Running
    /\ clock < MaxClock
    /\ clock' = clock + 1
    /\ wall' = NextHour(wall)
    /\ UNCHANGED <<camera_config_bound, script, camera_lock, pc, exc, camera, worker,
                   wake_at, video_vars, sensor_vars, job>>

Suspended == {"start", "acquire", "capture", "record", "communicate", "upload_image",
              "sleep", "wait_detect", "wait_stop"}

\* Task.cancel(): CancelledError is thrown into the task at its suspension point.
\* In Lock.acquire the waiter is forgotten and __aenter__'s except clause releases
\* the lock; inside the async with block __aexit__ closes the camera and releases
\* the lock, while the executor thread goes on; contextlib.suppress ends the task.
Cancel(t) ==
    /\ pc[t] \in Suspended
    /\ IF pc[t] = "acquire"
       THEN /\ camera_lock' = ExitLock(LockForget(camera_lock, t))
            /\ IF ExitRaises(camera_lock)
               THEN /\ pc' = [pc EXCEPT ![t] = "failed"]
                    /\ exc' = [exc EXCEPT ![t] = "RuntimeError"]
               ELSE /\ pc' = [pc EXCEPT ![t] = "done"]
                    /\ exc' = exc
            /\ camera' = camera
       ELSE IF pc[t] \in {"capture", "record"}
       THEN /\ camera' = CloseCamera(camera, t)
            /\ camera_lock' = ExitLock(camera_lock)
            /\ IF ExitRaises(camera_lock)
               THEN /\ pc' = [pc EXCEPT ![t] = "failed"]
                    /\ exc' = [exc EXCEPT ![t] = "RuntimeError"]
               ELSE /\ pc' = [pc EXCEPT ![t] = "done"]
                    /\ exc' = exc
       ELSE /\ pc' = [pc EXCEPT ![t] = "done"]
            /\ UNCHANGED <<camera_lock, exc, camera>>
    /\ UNCHANGED <<time_vars, worker, wake_at, video_vars, sensor_vars, job>>

\* an executor thread whose task is gone finishes what it was running
Worker_Finish(t) ==
    /\ pc[t] \in {"done", "failed"}
    /\ worker[t] # "none"
    /\ worker' = [worker EXCEPT ![t] = "none"]
    /\ encoder' = IF worker[t] = "communicate" THEN "exited" ELSE encoder
    /\ UNCHANGED <<time_vars, camera_lock, pc, exc, camera, wake_at, last_motion_time,
                   motion_time, motion_log, sensor_vars, job>>

Next ==
    \/ Still_Tick
    \/ Still_CaptureDone
    \/ Still_UploadDone
    \/ Video_Detect
    \/ Video_RecordDone
    \/ Video_CommunicateDone
    \/ Video_UploadDone
    \/ Video_Stop
    \/ \E t \in Tasks : Lock_Wake(t)
    \/ \E level \in {0, 1} : Gpio_Callback(level)
    \/ Gpio_Second
    \/ Advance
    \/ \E t \in Tasks : Cancel(t)
    \/ \E t \in Tasks : Worker_Finish(t)

Spec == Init /\ [][Next]_vars

\* ------------------------------------------------------------ the timer scripts
\* kanikamera/__main__.py (a pyev timer calls capture_and_upload) and kanikamera.py
\* (main loops over capture_and_upload and time.sleep): one process, no managers
Programs == {"__main__.py", "kanikamera.py"}

manager_vars == <<clock, wall, camera_config_bound, camera_lock, pc, exc, camera, worker,
                  wake_at, last_motion_time, motion_time, encoder, motion_detect_event,
                  motion_stop_event, gpio_pc, job, motion_log>>

InitMain ==
    /\ script \in {[ScriptOff EXCEPT !.program = p, !.pc = "timer"] : p \in Programs}
    /\ clock = 1
    /\ wall \in StartWalls
    /\ camera_config_bound = FALSE
    /\ camera_lock = [locked |-> FALSE, waiters |-> <<>>, woken |-> {}]
    /\ pc = [t \in Tasks |-> "done"]
    /\ exc = [t \in Tasks |-> "none"]
    /\ camera = {}
    /\ worker = [t \in Tasks |-> "none"]
    /\ wake_at = 0
    /\ last_motion_time = {}
    /\ motion_time = 0
    /\ encoder = "none"
    /\ motion_detect_event = FALSE
    /\ motion_stop_event = FALSE
    /\ gpio_pc = "idle"
    /\ job = [t \in Tasks |-> NoJob]
    /\ motion_log = <<>>

\* capture_with_camera of __main__.py (lines 50-58), lines 32-37 of kanikamera.py:
\* a fresh BytesIO, filled by camera.capture; a PiCameraError is logged and the
\* buffer is handed on as it is
Script_Capture ==
    /\ script.pc = "timer"
    /\ Len(script.uploaded) < MaxTicks
    /\ \E r \in {"ok", "PiCameraError"} :
          script' = [script EXCEPT !.pc = "upload",
                                   !.img = IF r = "ok" THEN "jpeg" ELSE "empty"]
    /\ UNCHANGED manager_vars

\* upload_image of __main__.py (lines 61-70), lines 38-45 of kanikamera.py:
\* files_upload is called with the buffer's value; only DropboxException is caught
Script_Upload ==
    /\ script.pc = "upload"
    /\ \E r \in UploadOutcomes :
          script' = [script EXCEPT !.pc = IF r = "RequestException" THEN "failed"
                                         ELSE "timer",
                                   !.uploaded = Append(@, script.img)]
    /\ UNCHANGED manager_vars

NextMain ==
    \/ Script_Capture
    \/ Script_Upload

SpecMain == InitMain /\ [][NextMain]_vars

\* ------------------------------------------------------------ properties
\* a task is inside a gated camera section from its call of Camera.__aenter__
\* to the end of Camera.__aexit__
InSection(t) == pc[t] \in {"acquire", "capture", "record"}

\* the step in which task t calls capture_with_camera
GateStep(t) ==
    /\ pc[t] \in {"start", "sleep", "wait_detect"}
    /\ pc'[t] \in {"failed", "acquire", "capture", "record"}

\* C1: at most one task at a time is between a completed Camera.__aenter__ and
\* the end of its Camera.__aexit__, and a task suspended in Lock.acquire whose
\* future has no result yet waits for the other task, which holds the camera.
C1_OneLease ==
    /\ Cardinality(camera) <= 1
    /\ \A t \in Tasks :
          pc[t] = "acquire" /\ t \notin camera_lock.woken
              => camera_lock.locked /\ camera = Tasks \ {t}

C1_Witness ==
    /\ camera = {Video}
    /\ pc[Video] = "record"
    /\ pc[Still] = "acquire"

\* C2: a call of the gated wrapper at a local time with hour < 9, hour >= 17 or
\* on Saturday or Sunday returns without calling the decorated function, without
\* touching the camera lock and without opening the camera or starting a worker.
C2_ClosedGate ==
    [][\A t \in Tasks :
          GateStep(t) /\ (wall.tm_hour < 9 \/ wall.tm_hour >= 17 \/ wall.tm_wday \in {5, 6})
              => /\ ~job'[t].invoked
                 /\ job'[t].captures = 0
                 /\ camera_lock' = camera_lock
                 /\ camera' = camera
                 /\ worker' = worker
                 /\ encoder' = encoder]_vars

C2_Witness ==
    /\ wall.tm_hour >= 17
    /\ job[Still].policy = "closed"
    /\ ~job[Still].invoked
    /\ pc[Still] = "failed"

\* C3: whichever way a gated section is left, the camera its task opened is
\* closed and the lock released: a task outside the executor call of its section
\* has no open camera, and when no task is in a section the lock is unlocked
\* and nobody waits for it.
C3_Teardown ==
    /\ \A t \in Tasks : pc[t] \notin {"capture", "record"} => t \notin camera
    /\ (\A t \in Tasks : ~InSection(t))
          => ~camera_lock.locked /\ camera_lock.waiters = <<>>

C3_Witness ==
    /\ exc[Still] = "PiCameraError"
    /\ job[Still].captures = 1
    /\ ~InSection(Video)
    /\ ~camera_lock.locked
    /\ camera = {}

ThreeMotions ==
    /\ Len(motion_log) >= 3
    /\ \E e \in 1..(motionless_period - 1) :
          /\ motion_log[2].time = motion_log[1].time + e
          /\ motion_log[3].time = motion_log[1].time + motionless_period + e

Handled ==
    /\ motion_log # <<>>
    /\ pc[Video] \notin {"acquire", "record", "communicate", "upload_image", "done"}

\* C6: a handled detection at t starts a recording exactly if it is the first or
\* comes more than motionless_period after the last-motion time, and once it is
\* handled the last-motion time is t and the task waits for an event again.
C6_TransitionRule ==
    /\ \A i \in 1..Len(motion_log) :
          (i < Len(motion_log) \/ Handled)
              => (motion_log[i].recorded
                    <=> (i = 1 \/ motion_log[i].time - motion_log[i - 1].time
                                      > motionless_period))
    /\ Handled => /\ last_motion_time = {motion_log[Len(motion_log)].time}
                  /\ pc[Video] \in {"wait_stop", "wait_detect"}

\* C7: when avconv exits with a non-zero status, upload_image is not called for
\* that recording.
C7_NoUploadAfterFailedEncode ==
    job[Video].returncode = "nonzero"
        => /\ job[Video].uploads = 0
           /\ pc[Video] # "upload_image"
           /\ worker[Video] # "upload"

C7_Witness ==
    /\ job[Video].returncode = "nonzero"
    /\ job[Video].captures = 1
    /\ pc[Video] = "wait_stop"

\* C8: when the upload of a still image ends in a DropboxException or a
\* RequestException, the still task gets no exception and calls upload_image no
\* second time: it sleeps its interval from then, as after a successful upload.
C8_UploadErrorSurvived ==
    [][(/\ pc[Still] = "upload_image"
        /\ job[Still].upload_result = "none"
        /\ job'[Still].upload_result \in {"DropboxException", "RequestException"})
          => /\ pc'[Still] = "sleep"
             /\ exc'[Still] = "none"
             /\ wake_at' = clock + interval
             /\ job'[Still].uploads = 1
             /\ worker'[Still] = "none"]_vars

C8_Witness ==
    /\ job[Still].upload_result = "RequestException"
    /\ pc[Still] = "sleep"
    /\ exc[Still] = "none"

\* C9: a tick of the still task outside the policy window makes no capture and
\* no upload, and the task stays alive: it sleeps towards its next tick (or has
\* been cancelled).
C9_ClosedTickSkipped ==
    job[Still].policy = "closed"
        => /\ job[Still].captures = 0
           /\ job[Still].uploads = 0
           /\ pc[Still] \in {"sleep", "done"}

C11_OpenTickCaptures ==
    [][(/\ GateStep(Still)
        /\ wall.tm_hour >= 9 /\ wall.tm_hour < 17 /\ wall.tm_wday < 5
        /\ ~camera_lock.locked /\ camera_lock.waiters = <<>>)
          => \/ /\ pc'[Still] = "capture"
                /\ camera' = {Still}
                /\ worker'[Still] = "capture"
                /\ job'[Still].captures = 1
             \/ exc'[Still] = "PiCameraError"]_vars

\* C12: every call of the uploader carries the non-empty payload of a successful
\* capture; after a PiCameraError nothing is uploaded.  For the timer scripts:
\* no buffer handed to files_upload is empty.
C12_NoEmptyUpload ==
    \A i \in 1..Len(script.uploaded) : script.uploaded[i] # "empty"

RECURSIVE HoursLater(_, _)
HoursLater(w, n) == IF n = 0 THEN w ELSE HoursLater(NextHour(w), n - 1)

C19_MinimalSection ==
    \A t \in Tasks :
        pc[t] \in {"communicate", "upload_image"}
            => /\ t \notin camera
               /\ camera_lock.locked => \E u \in Tasks \ {t} : u \in camera

\* the video task records while the still image taken before is being uploaded
C19_Witness ==
    /\ pc[Still] = "upload_image"
    /\ worker[Still] = "upload"
    /\ pc[Video] = "record"
    /\ camera = {Video}
    /\ camera_lock.locked

\* C20: the two events of the motion sensor are complementary whenever a
\* coroutine runs: the video task never leaves one of its two waits while
\* motion_detect_event and motion_stop_event are both set.
C20_EventsComplementary ==
    [][(/\ pc[Video] \in {"wait_detect", "wait_stop"}
        /\ pc'[Video] # pc[Video]
        /\ pc'[Video] # "done")
          => ~(motion_detect_event /\ motion_stop_event)]_vars
============================================================================
